---- MODULE Spec2Model ----
\* A model of krawl's GROBID lifecycle controller (GrobidManager) and of the
\* batch coordinator that drives it (PaperParser.run), both in
\* krawl/parser/paper_parser.py, and of the PDF downloader (PaperDownloader) of
\* krawl/downloader/paper_downloader.py.
EXTENDS Integers, Sequences, FiniteSets, TLC

\* ------------------------------------------------------------------ bounds
MaxItems == 3
MaxBatchSize == 2
MaxTasks == 3
MaxPaths == 2
MaxCalls == 3
MaxPdfs == 3
MaxStart == 300

\* ------------------------------------------------------- program constants
max_retries == 30
results_per_page == 100
wait_interval == 5
grace_delay == 10

AllMgrs == {"m1", "m2"}
\* The manager owned by the PaperParser (self.grobid).
PM == "m1"

VARIABLES
    \* --- the docker host
    dockerOK,     \* the docker executable is on PATH
    ctr,          \* the container named grobid_container: absent, running, exited
    launcher,     \* who issued the docker run of that container: none, ext, m1, m2
    autorm,       \* the container was launched with --rm
    calls,        \* start() and stop() calls made by the callers, up to MaxCalls
    \* --- GrobidManager, per instance
    client,       \* self.client is not None
    started,      \* self._container_started_by_this_instance
    spc,          \* position inside start()
    tpc,          \* position inside stop()
    last,         \* the call that completed last: none, start_ok, start_err, stop
    pollI,        \* unhealthy polls made so far by the loop of the current start()
    slept,        \* seconds slept so far by the current start()
    logsN,        \* fetch_container_logs() calls of the current start()
    stopsN,       \* stop() calls made by the current start()
    everHealthy,  \* some poll of the current start() found the service healthy
    adopted,      \* the last start() found an externally launched container healthy
    launchedNow,  \* the current start() launched the container
    stopCmds,     \* docker stop / rm commands of the last stop(), until start() is called
    again,        \* the last stop() was called right after a stop() had returned
    trail,        \* what the current start() has met and done so far
    ownLaunch,    \* a docker run of this instance succeeded, no stop() returned since
    \* --- PaperParser.run
    rpc,          \* position inside run()
    nItems,       \* the PDFs of the input directory are 1..nItems, in glob order
    force,        \* self.force
    batchSize,    \* self.processing_batch_size
    store,        \* per item, its <stem>.grobid.tei.xml: missing, empty, full
    dirsSet,      \* the content of the input and output directories is fixed
    storeAtStart, \* the store as the current run found it
    toProcess,    \* pdf_files_to_process
    skipped,      \* the items counted in skipped_count
    bi,           \* the loop index i of the batch loop
    bj,           \* the items of the batch already handed to copy2
    copied,       \* copied_files_for_batch
    scratch,      \* the temporary batch directories that exist
    processed,    \* processed_pdf_count_successfully
    rexit,        \* how the last run ended: none, return, RuntimeError, Exception
    runNo,        \* runs begun so far: 0, 1, or 2 for two or more
    copyFailed,   \* the items whose copy2 raised in the current run
    stagedLog,    \* per batch begun in the current run, the items staged for it
    tempBatchDir, \* items with a file, whole or partial, in temp_batch_dir
    batchLog,     \* per batch begun in the current run, its batch_pdf_files
    submitLog,    \* the client.process calls of the current run: batch and outcome
    lateSubmit,   \* client.process was called after a stop() of the current run
    abortAt,      \* the batch whose submission raised in the current run, or 0
    abortKind,    \* the outcome that raised there
    stopsInRun,   \* stop() calls made by run's finally clause in the current run
    startAsked,   \* the current run called start()
    \* --- PaperDownloader
    tasks,        \* url_path_list: per task its url and its target_path
    skipIfExists, \* skip_if_exists
    files,        \* per target path, the file there: missing, empty, small, big
    dpc,          \* position inside download_pdfs()
    di,           \* the loop index i of download_pdfs()
    ppc,          \* position inside download_pdf()
    status,       \* the DownloadStatus the current download_pdf() returns
    results,      \* the list download_pdfs() builds
    waitLog,      \* the task numbers after which download_pdfs() slept
    callLog,      \* the task numbers download_pdf() was called for
    written,      \* what the current download_pdf() has written: none, or a size
    rmFailed,     \* os.remove raised in the cleanup of the current download_pdf()
    \* --- NougatPaperParser
    nPdfs,        \* the number of PDFs in input_pdf_dir
    forceProcess, \* force_process
    mmd,          \* per PDF, its <stem>.mmd output: missing, empty, full
    mmdAtStart,   \* mmd as it was when run() was called
    pdfFilesToProcess, \* pdf_files_to_process
    mmdSkipped,   \* the local `skipped` of NougatPaperParser.run
    success,      \* the local `success`
    failed,       \* the local `failed`
    processLog,   \* the process_pdf calls made: the PDF and the outcome
    npc,          \* position inside NougatPaperParser.run
    \* --- ArxivSource.fetch_papers
    apc,          \* position inside fetch_papers()
    start_index,  \* start_index, counted up to MaxStart
    fetched_count, \* fetched_count
    total_results_for_query, \* total_results_for_query, -1 for None
    papers,       \* len(papers)
    feedEntries,  \* len(feed.entries) of the response being parsed
    feedTotal,    \* opensearch_totalresults of that response, -1 when absent
    failedRequests, \* some request of the call has failed
    okPages,      \* some page with entries was fetched by the call
    tick          \* the parity of the requests made: each one differs from the last

envVars == <<dockerOK, ctr, launcher, autorm, calls>>
mgrVars == <<client, started, spc, tpc, last, pollI, slept, logsN, stopsN,
             everHealthy, adopted, launchedNow, stopCmds, again,
             trail, ownLaunch>>
cfgVars == <<nItems, force, batchSize, dirsSet>>
runVars == <<rpc, store, storeAtStart, toProcess, skipped, bi, bj, copied,
             scratch, processed, rexit, runNo, copyFailed, stagedLog, tempBatchDir, batchLog,
             submitLog, lateSubmit, abortAt, abortKind, stopsInRun, startAsked>>
dlVars == <<tasks, skipIfExists, files, dpc, di, ppc, status, results, waitLog,
            callLog, written, rmFailed>>
ngVars == <<nPdfs, forceProcess, mmd, mmdAtStart, pdfFilesToProcess, mmdSkipped,
            success, failed, processLog, npc>>
axVars == <<apc, start_index, fetched_count, total_results_for_query, papers,
            feedEntries, feedTotal, failedRequests, okPages, tick>>
vars == <<envVars, mgrVars, cfgVars, runVars, dlVars, ngVars, axVars>>

\* ------------------------------------------------------------ GrobidManager

\* is_container_running_and_healthy(): docker inspect reports the container
\* running and /api/isalive answers true; every failure is swallowed into False.
Healthy(api) == dockerOK /\ ctr = "running" /\ api

\* _is_grobid_api_alive(): the HTTP probe alone.
ApiAlive(api) == ctr = "running" /\ api

\* Faulty variant of PollBudgetLeft: the loop bound is off by one.
PollBudgetLeft_offByOne(i) == i <= max_retries

\* The loop header `for i in range(max_retries)`.
PollBudgetLeft(i) == i < max_retries

\* Faulty variant of SleepAfterPoll: the loop sleeps after every poll, the
\* last one included.
SleepAfterPoll_everyPoll(i) == wait_interval

\* `if i < max_retries - 1: time.sleep(wait_interval)`, lines 180-182.
SleepAfterPoll(i) == IF i < max_retries - 1 THEN wait_interval ELSE 0

\* The first statements of stop(): `if self.client: self.client = None`.
BeginStop(m) ==
    /\ client' = [client EXCEPT ![m] = FALSE]
    /\ tpc' = [tpc EXCEPT ![m] = "inspect"]
    /\ stopCmds' = [stopCmds EXCEPT ![m] = {}]

\* Entry of start(): nothing of the instance is reset.
BeginStart(m) ==
    /\ spc' = [spc EXCEPT ![m] = "probe"]
    /\ pollI' = [pollI EXCEPT ![m] = 0]
    /\ slept' = [slept EXCEPT ![m] = 0]
    /\ logsN' = [logsN EXCEPT ![m] = 0]
    /\ stopsN' = [stopsN EXCEPT ![m] = 0]
    /\ everHealthy' = [everHealthy EXCEPT ![m] = FALSE]
    /\ launchedNow' = [launchedNow EXCEPT ![m] = FALSE]
    /\ adopted' = [adopted EXCEPT ![m] = FALSE]
    /\ stopCmds' = [stopCmds EXCEPT ![m] = {}]
    /\ again' = [again EXCEPT ![m] = FALSE]
    /\ trail' = [trail EXCEPT ![m] = {}]

\* The current start() of m meets or does evs.
Note(m, evs) == trail' = [trail EXCEPT ![m] = @ \cup evs]

\* The other GrobidManager instances.
Others(m) == AllMgrs \ {m}

\* Faulty variant of ProbeBindFailureRaises: a client that cannot be built for
\* a healthy service sends start() on to relaunch the container.
ProbeBindFailureRaises_restarts == FALSE

\* Lines 104-107: the handler of a failed GrobidClient construction raises.
ProbeBindFailureRaises == TRUE

\* Faulty variant of FlagBeforeLaunch: the flag is not reset before relaunching.
FlagBeforeLaunch_kept(f) == f

\* Line 111: `self._container_started_by_this_instance = False`.
FlagBeforeLaunch(f) == FALSE

\* Faulty variant of NeedsRemoval: an existing container is never removed.
NeedsRemoval_never(c) == FALSE

\* Line 115: `inspect_result.returncode == 0`, a container of that name exists.
NeedsRemoval(c) == c # "absent"

\* Faulty variant of RecheckPasses: the client is bound without a re-check.
RecheckPasses_skipped(alive) == TRUE

\* Line 164: `if not self._is_grobid_api_alive()`.
RecheckPasses(alive) == alive

\* start() raises RuntimeError to its caller.
StartRaises(m) ==
    /\ spc' = [spc EXCEPT ![m] = "idle"]
    /\ last' = [last EXCEPT ![m] = "start_err"]

\* start(), lines 99-111: the service is already healthy, bind a client to it;
\* otherwise go on to (re)launch the container.
StartProbe(m) ==
    /\ spc[m] = "probe"
    /\ tpc[m] = "idle"
    /\ \E api \in BOOLEAN, bind \in BOOLEAN :
        IF Healthy(api)
        THEN /\ adopted' = [adopted EXCEPT ![m] = launcher # m]
             /\ IF bind
                THEN /\ client' = [client EXCEPT ![m] = TRUE]
                     /\ spc' = [spc EXCEPT ![m] = "idle"]
                     /\ last' = [last EXCEPT ![m] = "start_ok"]
                     /\ Note(m, {"probe_healthy"})
                     /\ UNCHANGED started
                ELSE IF ProbeBindFailureRaises
                THEN /\ StartRaises(m)
                     /\ Note(m, {"probe_healthy", "probe_bind_failed", "raised"})
                     /\ UNCHANGED <<client, started>>
                ELSE /\ started' = [started EXCEPT ![m] = FlagBeforeLaunch(@)]
                     /\ spc' = [spc EXCEPT ![m] = "inspect"]
                     /\ Note(m, {"probe_healthy", "probe_bind_failed"})
                     /\ UNCHANGED <<client, last>>
        ELSE /\ started' = [started EXCEPT ![m] = FlagBeforeLaunch(@)]
             /\ spc' = [spc EXCEPT ![m] = "inspect"]
             /\ UNCHANGED <<client, last, adopted, trail>>
    /\ UNCHANGED <<tpc, pollI, slept, logsN, stopsN, everHealthy,
                   launchedNow, stopCmds, again, ownLaunch>>
    /\ UNCHANGED <<envVars, cfgVars, runVars, dlVars, ngVars, axVars>>

\* start(), lines 113-120: docker inspect of the name; docker missing is fatal.
StartInspect(m) ==
    /\ spc[m] = "inspect"
    /\ IF ~dockerOK
       THEN /\ StartRaises(m)
            /\ Note(m, {"raised"})
       ELSE /\ spc' = [spc EXCEPT ![m] = IF NeedsRemoval(ctr) THEN "rm" ELSE "launch"]
            /\ UNCHANGED <<last, trail>>
    /\ UNCHANGED <<client, started, tpc, pollI, slept, logsN, stopsN, everHealthy,
                   adopted, again, ownLaunch, launchedNow, stopCmds>>
    /\ UNCHANGED <<envVars, cfgVars, runVars, dlVars, ngVars, axVars>>

\* start(), lines 116-122: docker rm -f of the stale container; a failure of
\* the removal is printed and start() goes on to docker run.
StartRemove(m) ==
    /\ spc[m] = "rm"
    /\ \E ok \in BOOLEAN :
        /\ ctr' = IF ok THEN "absent" ELSE ctr
        /\ launcher' = IF ok THEN "none" ELSE launcher
        /\ Note(m, (IF ok THEN {"rm_ok"} ELSE {"rm_failed"})
                    \cup (IF ok /\ ctr # "absent" /\ launcher \in Others(m)
                          THEN {"rm_other"} ELSE {}))
    /\ spc' = [spc EXCEPT ![m] = "launch"]
    /\ UNCHANGED <<dockerOK, autorm, calls>>
    /\ UNCHANGED <<client, started, tpc, last, pollI, slept, logsN, stopsN,
                   everHealthy, adopted, again, ownLaunch, launchedNow, stopCmds>>
    /\ UNCHANGED <<cfgVars, runVars, dlVars, ngVars, axVars>>

\* start(), lines 124-152: docker run --rm -d --name ...; it cannot succeed
\* while a container of that name exists. A failure fetches the logs and raises.
StartLaunch(m) ==
    /\ spc[m] = "launch"
    /\ \E ok \in BOOLEAN :
        /\ ok => (dockerOK /\ ctr = "absent")
        /\ IF ok
           THEN /\ ctr' = "running"
                /\ launcher' = m
                /\ autorm' = TRUE
                /\ started' = [started EXCEPT ![m] = TRUE]
                /\ launchedNow' = [launchedNow EXCEPT ![m] = TRUE]
                /\ ownLaunch' = [ownLaunch EXCEPT ![m] = TRUE]
                /\ spc' = [spc EXCEPT ![m] = "grace"]
                /\ Note(m, {"launch_ok"})
                /\ UNCHANGED <<last, logsN>>
           ELSE /\ logsN' = [logsN EXCEPT ![m] = IF dockerOK THEN @ + 1 ELSE @]
                /\ StartRaises(m)
                /\ Note(m, {"launch_failed", "raised"}
                            \cup (IF ctr # "absent" THEN {"launch_on_stale"} ELSE {}))
                /\ UNCHANGED <<ctr, launcher, autorm, started, launchedNow, ownLaunch>>
    /\ UNCHANGED <<client, dockerOK, calls, tpc, pollI, slept, stopsN, everHealthy,
                   adopted, again, stopCmds>>
    /\ UNCHANGED <<cfgVars, runVars, dlVars, ngVars, axVars>>

\* start(), lines 154-158: time.sleep(10) before the first poll.
StartGrace(m) ==
    /\ spc[m] = "grace"
    /\ slept' = [slept EXCEPT ![m] = @ + grace_delay]
    /\ spc' = [spc EXCEPT ![m] = "poll"]
    /\ UNCHANGED <<client, started, tpc, last, pollI, logsN, stopsN,
                   everHealthy, adopted, again, trail, ownLaunch, launchedNow, stopCmds>>
    /\ UNCHANGED <<envVars, cfgVars, runVars, dlVars, ngVars, axVars>>

\* start(), lines 159-162 and 180-182: one iteration of the polling loop.
StartPoll(m) ==
    /\ spc[m] = "poll"
    /\ PollBudgetLeft(pollI[m])
    /\ \E api \in BOOLEAN :
        IF Healthy(api)
        THEN /\ everHealthy' = [everHealthy EXCEPT ![m] = TRUE]
             /\ spc' = [spc EXCEPT ![m] = "recheck"]
             \* the loop is left for good: i and the time slept are read no more
             /\ pollI' = [pollI EXCEPT ![m] = 0]
             /\ slept' = [slept EXCEPT ![m] = 0]
        ELSE /\ pollI' = [pollI EXCEPT ![m] = @ + 1]
             /\ slept' = [slept EXCEPT ![m] = @ + SleepAfterPoll(pollI[m])]
             /\ UNCHANGED <<everHealthy, spc>>
    /\ UNCHANGED <<client, started, tpc, last, logsN, stopsN, adopted, again, trail, ownLaunch,
                   launchedNow, stopCmds>>
    /\ UNCHANGED <<envVars, cfgVars, runVars, dlVars, ngVars, axVars>>

\* start(), lines 184-186: the loop ran out; fetch the logs and call stop().
StartExhausted(m) ==
    /\ spc[m] = "poll"
    /\ ~PollBudgetLeft(pollI[m])
    /\ logsN' = [logsN EXCEPT ![m] = @ + 1]
    /\ stopsN' = [stopsN EXCEPT ![m] = @ + 1]
    /\ BeginStop(m)
    /\ spc' = [spc EXCEPT ![m] = "wait_stop_186"]
    /\ Note(m, {"exhausted"})
    /\ UNCHANGED <<started, last, pollI, slept, everHealthy, adopted, again,
                   ownLaunch, launchedNow>>
    /\ UNCHANGED <<envVars, cfgVars, runVars, dlVars, ngVars, axVars>>

\* start(), lines 163-172: the liveness re-check and the client construction.
\* A dead re-check fetches the logs and calls stop() (lines 165-167).
StartRecheck(m) ==
    /\ spc[m] = "recheck"
    /\ \E api \in BOOLEAN, bind \in BOOLEAN :
        IF ~RecheckPasses(ApiAlive(api))
        THEN /\ logsN' = [logsN EXCEPT ![m] = @ + 1]
             /\ stopsN' = [stopsN EXCEPT ![m] = @ + 1]
             /\ BeginStop(m)
             /\ spc' = [spc EXCEPT ![m] = "wait_stop_167"]
             /\ Note(m, {"recheck_dead"})
             /\ UNCHANGED last
        ELSE /\ IF bind
                THEN /\ client' = [client EXCEPT ![m] = TRUE]
                     /\ spc' = [spc EXCEPT ![m] = "idle"]
                     /\ last' = [last EXCEPT ![m] = "start_ok"]
                     /\ Note(m, {IF ApiAlive(api) THEN "recheck_ok" ELSE "recheck_dead"})
                ELSE /\ spc' = [spc EXCEPT ![m] = "except"]
                     /\ Note(m, {IF ApiAlive(api) THEN "recheck_ok" ELSE "recheck_dead",
                                 "bind_failed"})
                     /\ UNCHANGED <<client, last>>
             /\ UNCHANGED <<logsN, stopsN, tpc, stopCmds>>
    /\ UNCHANGED <<started, pollI, slept, everHealthy, adopted, again, ownLaunch,
                   launchedNow>>
    /\ UNCHANGED <<envVars, cfgVars, runVars, dlVars, ngVars, axVars>>

\* start(), line 168: the RuntimeError of the dead re-check is raised inside
\* the try block of line 163, so the handler of line 173 catches it.
StartRecheckRaise(m) ==
    /\ spc[m] = "wait_stop_167"
    /\ tpc[m] = "idle"
    /\ spc' = [spc EXCEPT ![m] = "except"]
    /\ UNCHANGED <<client, started, tpc, last, pollI, slept, logsN, stopsN,
                   everHealthy, adopted, again, trail, ownLaunch, launchedNow, stopCmds>>
    /\ UNCHANGED <<envVars, cfgVars, runVars, dlVars, ngVars, axVars>>

\* start(), lines 173-177: `except Exception`: fetch the logs, call stop().
StartExcept(m) ==
    /\ spc[m] = "except"
    /\ logsN' = [logsN EXCEPT ![m] = @ + 1]
    /\ stopsN' = [stopsN EXCEPT ![m] = @ + 1]
    /\ BeginStop(m)
    /\ spc' = [spc EXCEPT ![m] = "wait_stop_177"]
    /\ UNCHANGED <<started, last, pollI, slept, everHealthy, adopted, again, trail,
                   ownLaunch, launchedNow>>
    /\ UNCHANGED <<envVars, cfgVars, runVars, dlVars, ngVars, axVars>>

\* start(), lines 178 and 187: stop() has returned, RuntimeError is raised.
StartFail(m) ==
    /\ spc[m] \in {"wait_stop_177", "wait_stop_186"}
    /\ tpc[m] = "idle"
    /\ StartRaises(m)
    /\ Note(m, {"raised"})
    /\ UNCHANGED <<client, started, tpc, pollI, slept, logsN, stopsN,
                   everHealthy, adopted, again, ownLaunch, launchedNow, stopCmds>>
    /\ UNCHANGED <<envVars, cfgVars, runVars, dlVars, ngVars, axVars>>

\* The finally clause of stop() (line 227) and its return.
StopReturns(m) ==
    /\ started' = [started EXCEPT ![m] = FALSE]
    /\ ownLaunch' = [ownLaunch EXCEPT ![m] = FALSE]
    /\ tpc' = [tpc EXCEPT ![m] = "idle"]
    /\ last' = [last EXCEPT ![m] = "stop"]

\* Faulty variant of StopCatches: a docker stop that times out is not handled.
StopCatches_noTimeout(err) == err # "TimeoutExpired"

\* The handlers of lines 219-225: FileNotFoundError, subprocess.TimeoutExpired
\* and, under `except Exception`, every other error of the docker commands.
StopCatches(err) == err \in {"FileNotFoundError", "TimeoutExpired", "Exception"}

\* A docker command of stop() raises err: the handler that catches it prints
\* and falls through to the finally clause (line 227), then stop() returns;
\* an exception nothing catches would leave stop() through the same clause.
StopEnds(m, err) ==
    /\ started' = [started EXCEPT ![m] = FALSE]
    /\ ownLaunch' = [ownLaunch EXCEPT ![m] = FALSE]
    /\ tpc' = [tpc EXCEPT ![m] = "idle"]
    /\ last' = [last EXCEPT ![m] = IF StopCatches(err) THEN "stop" ELSE "stop_err"]

\* `if self._container_started_by_this_instance` of line 212, the only use
\* stop() makes of the ownership flag.
OwnCheckApplies(m) == started[m]

\* stop(), lines 195-198: docker inspect; nothing to do when the container
\* is gone, and docker missing ends the call (line 219).
StopInspect(m) ==
    /\ tpc[m] = "inspect"
    /\ IF ~dockerOK
       THEN StopEnds(m, "FileNotFoundError")
       ELSE IF ctr = "absent"
       THEN StopReturns(m)
       ELSE /\ tpc' = [tpc EXCEPT ![m] = "stop"]
            /\ UNCHANGED <<started, last, ownLaunch>>
    /\ UNCHANGED <<client, spc, pollI, slept, logsN, stopsN, everHealthy,
                   adopted, again, trail, launchedNow, stopCmds>>
    /\ UNCHANGED <<envVars, cfgVars, runVars, dlVars, ngVars, axVars>>

\* stop(), lines 200-210 and 221-225: docker stop with a 30 s timeout, which
\* may exit with 0 or not, time out, or fail to run at all. A stopped --rm
\* container is removed by docker.
StopStop(m) ==
    /\ tpc[m] = "stop"
    /\ \E out \in {"ok", "nonzero", "timeout", "error"} :
        /\ out = "ok" => ctr # "absent"
        /\ stopCmds' = [stopCmds EXCEPT ![m] =
                           @ \cup {"stop"}
                             \cup (IF out = "ok" /\ launcher \in Others(m)
                                   THEN {"hit_other"} ELSE {})]
        /\ IF out = "ok"
           THEN /\ ctr' = IF autorm THEN "absent" ELSE "exited"
                /\ launcher' = IF autorm THEN "none" ELSE launcher
           ELSE UNCHANGED <<ctr, launcher>>
        /\ IF out = "timeout"
           THEN StopEnds(m, "TimeoutExpired")
           ELSE IF out = "error"
           THEN StopEnds(m, "Exception")
           ELSE /\ tpc' = [tpc EXCEPT ![m] = "own_check"]
                /\ UNCHANGED <<started, last, ownLaunch>>
    /\ UNCHANGED <<dockerOK, autorm, calls>>
    /\ UNCHANGED <<client, spc, pollI, slept, logsN, stopsN, everHealthy,
                   adopted, again, trail, launchedNow>>
    /\ UNCHANGED <<cfgVars, runVars, dlVars, ngVars, axVars>>

\* stop(), lines 212-217 and 227: a container that still exists is removed
\* with docker rm -f (whose exit code is ignored) if the flag of this instance
\* is set.
StopOwnCheck(m) ==
    /\ tpc[m] = "own_check"
    /\ IF OwnCheckApplies(m) /\ ctr # "absent"
       THEN \E ok \in BOOLEAN :
                /\ ctr' = IF ok THEN "absent" ELSE ctr
                /\ launcher' = IF ok THEN "none" ELSE launcher
                /\ stopCmds' = [stopCmds EXCEPT ![m] =
                                   @ \cup {"rm"}
                                     \cup (IF ok /\ launcher \in Others(m)
                                           THEN {"hit_other"} ELSE {})]
       ELSE UNCHANGED <<stopCmds, ctr, launcher>>
    /\ StopReturns(m)
    /\ UNCHANGED <<dockerOK, autorm, calls>>
    /\ UNCHANGED <<client, spc, pollI, slept, logsN, stopsN, everHealthy,
                   adopted, again, trail, launchedNow>>
    /\ UNCHANGED <<cfgVars, runVars, dlVars, ngVars, axVars>>

\* ------------------------------------------------------------ environment

\* The container dies on its own; docker removes a --rm container that exits.
\* Only the docker commands and probes of start() and stop() observe the
\* container, so a death while run() stages and submits batches is taken at
\* the end of the batch loop, where stop() is the next to look.
EnvCrash ==
    /\ ctr = "running"
    /\ rpc \notin {"filter", "batch", "copy"}
    /\ ctr' = IF autorm THEN "absent" ELSE "exited"
    /\ launcher' = IF autorm THEN "none" ELSE launcher
    /\ UNCHANGED <<dockerOK, autorm, calls>>
    /\ UNCHANGED <<mgrVars, cfgVars, runVars, dlVars, ngVars, axVars>>

\* The directories may hold anything when run() first lists them: which PDFs
\* and which artifacts are there is fixed at that moment, the first at which
\* anything depends on it, and only run() changes the output directory after.
EnvDirs ==
    /\ rpc = "filter"
    /\ ~dirsSet
    /\ dirsSet' = TRUE
    /\ nItems' \in 0..MaxItems
    /\ store' \in [1..MaxItems -> {"missing", "empty", "full"}]
    /\ \A i \in 1..MaxItems : i > nItems' => store'[i] = "missing"
    \* run() tells an empty artifact from a full one nowhere (ArtifactExists):
    \* one item whose artifact may be empty is enough to see that it does not
    /\ \A i \in 1..MaxItems : store'[i] = "empty" => i = nItems'
    /\ storeAtStart' = store'
    /\ UNCHANGED <<force, batchSize>>
    /\ UNCHANGED <<rpc, toProcess, skipped, bi, bj, copied, scratch,
                   processed, rexit, runNo, copyFailed, stagedLog, tempBatchDir, batchLog, submitLog,
                   lateSubmit, abortAt, abortKind, stopsInRun, startAsked>>
    /\ UNCHANGED <<envVars, mgrVars, dlVars, ngVars, axVars>>

\* The calls counted so far, the count held at MaxCalls.
CountCall(n) == IF n < MaxCalls THEN n + 1 ELSE n

\* A caller of GrobidManager invokes start() on an instance at rest.
CallStart(m) ==
    /\ rpc = "idle"
    /\ spc[m] = "idle"
    /\ tpc[m] = "idle"
    /\ BeginStart(m)
    /\ calls' = CountCall(calls)
    /\ UNCHANGED <<client, started, tpc, last, ownLaunch>>
    /\ UNCHANGED <<dockerOK, ctr, launcher, autorm>>
    /\ UNCHANGED <<cfgVars, runVars, dlVars, ngVars, axVars>>

\* A caller of GrobidManager invokes stop() on an instance at rest.
CallStop(m) ==
    /\ rpc = "idle"
    /\ spc[m] = "idle"
    /\ tpc[m] = "idle"
    /\ BeginStop(m)
    /\ again' = [again EXCEPT ![m] = (last[m] = "stop")]
    /\ calls' = CountCall(calls)
    /\ UNCHANGED <<started, spc, last, pollI, slept, logsN, stopsN,
                   everHealthy, adopted, launchedNow, trail, ownLaunch>>
    /\ UNCHANGED <<dockerOK, ctr, launcher, autorm>>
    /\ UNCHANGED <<cfgVars, runVars, dlVars, ngVars, axVars>>

\* The steps of start() and stop() of instance m.
MgrStep(m) ==
    \/ StartProbe(m)
    \/ StartInspect(m)
    \/ StartRemove(m)
    \/ StartLaunch(m)
    \/ StartGrace(m)
    \/ StartPoll(m)
    \/ StartExhausted(m)
    \/ StartRecheck(m)
    \/ StartRecheckRaise(m)
    \/ StartExcept(m)
    \/ StartFail(m)
    \/ StopInspect(m)
    \/ StopStop(m)
    \/ StopOwnCheck(m)

\* The docker host a GrobidManager may meet: docker installed or not, and the
\* name free, held by a container somebody else runs, or by one that exited.
EnvInit ==
    /\ dockerOK \in BOOLEAN
    /\ calls = 0
    /\ \/ ctr = "absent" /\ launcher = "none" /\ autorm = FALSE
       \/ ctr = "running" /\ launcher = "ext" /\ autorm \in BOOLEAN
       \/ ctr = "exited" /\ launcher = "ext" /\ autorm = FALSE

\* GrobidManager.__init__.
MgrInit ==
    /\ client = [m \in AllMgrs |-> FALSE]
    /\ started = [m \in AllMgrs |-> FALSE]
    /\ spc = [m \in AllMgrs |-> "idle"]
    /\ tpc = [m \in AllMgrs |-> "idle"]
    /\ last = [m \in AllMgrs |-> "none"]
    /\ pollI = [m \in AllMgrs |-> 0]
    /\ slept = [m \in AllMgrs |-> 0]
    /\ logsN = [m \in AllMgrs |-> 0]
    /\ stopsN = [m \in AllMgrs |-> 0]
    /\ everHealthy = [m \in AllMgrs |-> FALSE]
    /\ adopted = [m \in AllMgrs |-> FALSE]
    /\ launchedNow = [m \in AllMgrs |-> FALSE]
    /\ stopCmds = [m \in AllMgrs |-> {}]
    /\ again = [m \in AllMgrs |-> FALSE]
    /\ trail = [m \in AllMgrs |-> {}]
    /\ ownLaunch = [m \in AllMgrs |-> FALSE]

\* ------------------------------------------------------------ PaperParser.run

Items == 1..nItems
Min(a, b) == IF a < b THEN a ELSE b

\* glob.glob(os.path.join(input_pdf_dir, "*.pdf")), line 340.
AllPdfs == [i \in 1..nItems |-> i]

\* Faulty variant of ArtifactExists: the expected file name is not the one GROBID
\* writes, so no artifact is ever found.
ArtifactExists_wrongName(i) == FALSE

\* `expected_tei_path.exists()`, line 354: the size of the file is not looked at.
ArtifactExists(i) == store[i] # "missing"

\* Lines 347-362: an item is skipped when force is off and its artifact exists.
Skips(i) == ~force /\ ArtifactExists(i)
Kept(i) == ~Skips(i)

\* pdf_files_to_process after the filter, lines 345-362.
FilterKept == SelectSeq(AllPdfs, Kept)

\* skipped_count, as the set of the items it counts.
FilterSkipped == {i \in Items : Skips(i)}

\* batch_pdf_files = pdf_files_to_process[i:i + batch_size], line 374.
BatchAt(i) == SubSeq(toProcess, i + 1, Min(i + batchSize, Len(toProcess)))

\* current_batch_number, line 375.
BatchNo(i) == (i \div batchSize) + 1

\* total_batches, line 376.
TotalBatches == (Len(toProcess) + batchSize - 1) \div batchSize

\* Faulty variant of NextBatchIndex: the loop advances one item at a time, so
\* consecutive batches overlap.
NextBatchIndex_stepOne(i) == i + 1

\* The step of `range(0, total, batch_size)`, line 373.
NextBatchIndex(i) == i + batchSize

\* Faulty variant of CountSubmitted: the whole batch is counted, copied or not.
CountSubmitted_wholeBatch(cnt, cp, batch) == cnt + Len(batch)

\* `processed_pdf_count_successfully += len(copied_files_for_batch)`, line 408.
CountSubmitted(cnt, cp, batch) == cnt + Len(cp)

\* Faulty variant of CountsBatch: the count is raised in a finally clause of
\* the submission, whether client.process returned or raised.
CountsBatch_always(out) == TRUE

\* Line 408 follows client.process inside the try block of line 399: it is
\* reached only when the call returned.
CountsBatch(out) == out = "ok"

\* Faulty variant of AbortsRun: the ConnectionError handler does not raise.
AbortsRun_connSwallowed(out) == out = "other"

\* Faulty variant of AbortsRun: the generic handler does not re-raise.
AbortsRun_otherSwallowed(out) == out = "conn"

\* Lines 410-418: both handlers of a failed client.process end in a raise.
AbortsRun(out) == out \in {"conn", "other"}

\* Lines 414 and 418: a ConnectionError is wrapped in RuntimeError, any other
\* exception is re-raised as it is.
RaisedFor(out) == IF out = "conn" THEN "RuntimeError" ELSE "Exception"

\* Faulty variant of ScratchAfterBatch: the directory is made with mkdtemp and removed
\* at the end of the block only, so an exception leaves it behind.
ScratchAfterBatch_leakOnError(n, out) == IF out \in {"conn", "other"} THEN n ELSE n - 1

\* Faulty variant of ScratchAfterBatch: the `continue` of a batch with nothing
\* staged skips the removal of the directory.
ScratchAfterBatch_leakOnContinue(n, out) == IF out = "continue" THEN n ELSE n - 1

\* Directories left by the `with tempfile.TemporaryDirectory()` of line 380
\* once its block is left, by fall-through, continue or exception.
ScratchAfterBatch(n, out) == n - 1

\* Faulty variant of StopOnExit: stop() is called at the end of the try block
\* instead of in a finally clause.
StopOnExit_onlyOnReturn(how) == how = "return"

\* The finally clause of lines 433-435 runs stop() whatever ended the try.
StopOnExit(how) == TRUE

SetOf(q) == {q[x] : x \in 1..Len(q)}

\* run(), lines 331-333: a new run enters the try block and calls start().
RunCall ==
    /\ rpc = "idle"
    /\ spc[PM] = "idle"
    /\ tpc[PM] = "idle"
    /\ runNo' = IF runNo < 2 THEN runNo + 1 ELSE runNo
    /\ rpc' = "wait_start"
    /\ rexit' = "none"
    /\ storeAtStart' = store
    /\ toProcess' = <<>>
    /\ skipped' = {}
    /\ bi' = 0
    /\ bj' = 0
    /\ copied' = <<>>
    /\ processed' = 0
    /\ copyFailed' = {}
    /\ stagedLog' = <<>>
    /\ tempBatchDir' = {}
    /\ batchLog' = <<>>
    /\ submitLog' = <<>>
    /\ lateSubmit' = FALSE
    /\ abortAt' = 0
    /\ abortKind' = "none"
    /\ stopsInRun' = 0
    /\ startAsked' = TRUE
    /\ BeginStart(PM)
    /\ UNCHANGED <<client, started, tpc, last, ownLaunch>>
    /\ UNCHANGED <<store, scratch>>
    /\ UNCHANGED <<envVars, cfgVars, dlVars, ngVars, axVars>>

\* Faulty variant of StartSucceeded: run goes on whatever start() did.
StartSucceeded_unchecked == TRUE

\* Lines 333-338: run goes on only if start() returned without raising and
\* left a client bound.
StartSucceeded == last[PM] = "start_ok" /\ client[PM]

\* run(), lines 333-338 and 425-427: start() has returned or raised.
RunAfterStart ==
    /\ rpc = "wait_start"
    /\ spc[PM] = "idle"
    /\ IF StartSucceeded
       THEN /\ rpc' = "filter"
            /\ UNCHANGED rexit
       ELSE /\ rpc' = "finally"
            /\ rexit' = "RuntimeError"
    \* the locals of the start() call that ended are gone with its frame
    /\ pollI' = [pollI EXCEPT ![PM] = 0]
    /\ slept' = [slept EXCEPT ![PM] = 0]
    /\ logsN' = [logsN EXCEPT ![PM] = 0]
    /\ everHealthy' = [everHealthy EXCEPT ![PM] = FALSE]
    /\ launchedNow' = [launchedNow EXCEPT ![PM] = FALSE]
    /\ trail' = [trail EXCEPT ![PM] = {}]
    /\ UNCHANGED <<client, started, spc, tpc, last, stopsN, adopted, again,
                   ownLaunch, stopCmds>>
    /\ UNCHANGED <<store, storeAtStart, toProcess, skipped, bi, bj, copied,
                   scratch, processed, runNo, copyFailed, stagedLog, tempBatchDir, batchLog, submitLog,
                   lateSubmit, abortAt, abortKind, stopsInRun, startAsked>>
    /\ UNCHANGED <<envVars, cfgVars, dlVars, ngVars, axVars>>

\* run(), lines 340-371: glob, the skip filter and the two early returns.
RunFilter ==
    /\ rpc = "filter"
    /\ dirsSet
    /\ IF AllPdfs = <<>>
       THEN /\ rpc' = "finally"
            /\ rexit' = "return"
            /\ UNCHANGED <<toProcess, skipped>>
       ELSE /\ toProcess' = FilterKept
            /\ skipped' = FilterSkipped
            /\ IF FilterKept = <<>>
               THEN /\ rpc' = "finally"
                    /\ rexit' = "return"
               ELSE /\ rpc' = "batch"
                    /\ UNCHANGED rexit
    /\ bi' = 0
    /\ processed' = 0
    /\ UNCHANGED <<store, storeAtStart, bj, copied, scratch, runNo, copyFailed,
                   stagedLog, tempBatchDir, batchLog, submitLog, lateSubmit, abortAt, abortKind,
                   stopsInRun, startAsked>>
    /\ UNCHANGED <<envVars, mgrVars, cfgVars, dlVars, ngVars, axVars>>

\* run(), lines 373-383: the next batch is cut and its directory created.
RunBatchBegin ==
    /\ rpc = "batch"
    /\ bi < Len(toProcess)
    /\ scratch' = scratch + 1
    /\ copied' = <<>>
    /\ bj' = 0
    /\ stagedLog' = Append(stagedLog, <<>>)
    /\ tempBatchDir' = {}
    /\ batchLog' = Append(batchLog, BatchAt(bi))
    /\ rpc' = "copy"
    /\ UNCHANGED <<store, storeAtStart, toProcess, skipped, bi, processed,
                   rexit, runNo, copyFailed, submitLog, lateSubmit, abortAt,
                   abortKind, stopsInRun, startAsked>>
    /\ UNCHANGED <<envVars, mgrVars, cfgVars, dlVars, ngVars, axVars>>

\* shutil.copy2 (line 388) returns, or raises before it created the target
\* (the source cannot be read), or raises after it created the target (the
\* write or the copy of the metadata fails); it never removes the target.
CopyOutcomes == {"copied", "failed", "failed_partial"}

\* Whether the outcome leaves a file of the item in temp_batch_dir.
LeavesFile(out) == out \in {"copied", "failed_partial"}

\* run(), lines 384-391: one item of the batch is copied, or its copy fails.
RunCopy ==
    /\ rpc = "copy"
    /\ bj < Len(BatchAt(bi))
    /\ bj' = bj + 1
    /\ LET item == BatchAt(bi)[bj + 1] IN
       \E out \in CopyOutcomes :
          /\ IF out = "copied"
             THEN /\ copied' = Append(copied, item)
                  /\ stagedLog' = [stagedLog EXCEPT ![Len(stagedLog)] = Append(@, item)]
                  /\ UNCHANGED copyFailed
             ELSE /\ copyFailed' = copyFailed \cup {item}
                  /\ UNCHANGED <<copied, stagedLog>>
          /\ tempBatchDir' = IF LeavesFile(out) THEN tempBatchDir \cup {item}
                                                ELSE tempBatchDir
    /\ UNCHANGED <<batchLog, rpc, store, storeAtStart, toProcess, skipped, bi, scratch,
                   processed, rexit, runNo, submitLog, lateSubmit, abortAt,
                   abortKind, stopsInRun, startAsked>>
    /\ UNCHANGED <<envVars, mgrVars, cfgVars, dlVars, ngVars, axVars>>

\* run(), lines 393-395: nothing was copied, the batch is skipped.
RunSkipBatch ==
    /\ rpc = "copy"
    /\ bj = Len(BatchAt(bi))
    /\ copied = <<>>
    /\ scratch' = ScratchAfterBatch(scratch, "continue")
    /\ tempBatchDir' = {}
    /\ bi' = NextBatchIndex(bi)
    /\ rpc' = "batch"
    /\ UNCHANGED <<store, storeAtStart, toProcess, skipped, bj, copied,
                   processed, rexit, runNo, copyFailed, stagedLog, batchLog, submitLog,
                   lateSubmit, abortAt, abortKind, stopsInRun, startAsked>>
    /\ UNCHANGED <<envVars, mgrVars, cfgVars, dlVars, ngVars, axVars>>

\* run(), lines 399-418: client.process on the batch directory. A call that
\* returns has written the artifact of each file of the directory or failed
\* on it silently; a call that raises is taken to have written none.
RunSubmit ==
    /\ rpc = "copy"
    /\ bj = Len(BatchAt(bi))
    /\ copied # <<>>
    /\ \E out \in {"ok", "conn", "other"}, made \in SUBSET tempBatchDir :
        /\ out # "ok" => made = {}
        /\ store' = [i \in DOMAIN store |-> IF i \in made THEN "full" ELSE store[i]]
        /\ submitLog' = Append(submitLog,
                               [k |-> BatchNo(bi), items |-> copied, dir |-> tempBatchDir,
                                out |-> out])
        /\ scratch' = ScratchAfterBatch(scratch, out)
        /\ processed' = IF CountsBatch(out)
                        THEN CountSubmitted(processed, copied, BatchAt(bi))
                        ELSE processed
        /\ IF out # "ok"
           THEN /\ abortAt' = BatchNo(bi)
                /\ abortKind' = out
           ELSE UNCHANGED <<abortAt, abortKind>>
        /\ IF out # "ok" /\ AbortsRun(out)
           THEN /\ rpc' = "finally"
                /\ rexit' = RaisedFor(out)
                /\ UNCHANGED bi
           ELSE /\ rpc' = "batch"
                /\ bi' = NextBatchIndex(bi)
                /\ UNCHANGED rexit
    /\ lateSubmit' = (lateSubmit \/ stopsInRun > 0 \/ stopsN[PM] > 0)
    /\ tempBatchDir' = {}
    /\ UNCHANGED <<storeAtStart, toProcess, skipped, bj, copied, runNo,
                   copyFailed, stagedLog, batchLog, stopsInRun, startAsked>>
    /\ UNCHANGED <<envVars, mgrVars, cfgVars, dlVars, ngVars, axVars>>

\* run(), lines 420-423: the loop is over, run falls out of the try block.
RunFinish ==
    /\ rpc = "batch"
    /\ ~(bi < Len(toProcess))
    /\ rpc' = "finally"
    /\ rexit' = "return"
    /\ UNCHANGED <<store, storeAtStart, toProcess, skipped, bi, bj, copied,
                   scratch, processed, runNo, copyFailed, stagedLog, tempBatchDir, batchLog, submitLog,
                   lateSubmit, abortAt, abortKind, stopsInRun, startAsked>>
    /\ UNCHANGED <<envVars, mgrVars, cfgVars, dlVars, ngVars, axVars>>

\* run(), lines 433-435: the finally clause calls self.grobid.stop().
RunFinally ==
    /\ rpc = "finally"
    /\ IF StopOnExit(rexit)
       THEN /\ BeginStop(PM)
            /\ stopsInRun' = stopsInRun + 1
            /\ rpc' = "wait_stop"
       ELSE /\ rpc' = "idle"
            /\ UNCHANGED <<client, tpc, stopCmds, stopsInRun>>
    /\ UNCHANGED <<started, spc, last, pollI, slept, logsN, stopsN,
                   everHealthy, adopted, again, trail, ownLaunch, launchedNow>>
    /\ UNCHANGED <<store, storeAtStart, toProcess, skipped, bi, bj, copied,
                   scratch, processed, rexit, runNo, copyFailed, stagedLog, tempBatchDir, batchLog,
                   submitLog, lateSubmit, abortAt, abortKind, startAsked>>
    /\ UNCHANGED <<envVars, cfgVars, dlVars, ngVars, axVars>>

\* run() returns or lets its exception through once stop() has returned.
RunExit ==
    /\ rpc = "wait_stop"
    /\ tpc[PM] = "idle"
    /\ rpc' = "idle"
    /\ UNCHANGED <<store, storeAtStart, toProcess, skipped, bi, bj, copied,
                   scratch, processed, rexit, runNo, copyFailed, stagedLog, tempBatchDir, batchLog,
                   submitLog, lateSubmit, abortAt, abortKind, stopsInRun,
                   startAsked>>
    /\ UNCHANGED <<envVars, mgrVars, cfgVars, dlVars, ngVars, axVars>>

RunStep ==
    \/ RunCall
    \/ RunAfterStart
    \/ RunFilter
    \/ RunBatchBegin
    \/ RunCopy
    \/ RunSkipBatch
    \/ RunSubmit
    \/ RunFinish
    \/ RunFinally
    \/ RunExit

\* PaperParser.__init__ and the directories it is pointed at.
CfgInit ==
    /\ force \in BOOLEAN
    /\ batchSize \in 1..MaxBatchSize
    /\ dirsSet = FALSE
    /\ nItems = 0
    /\ store = [i \in 1..MaxItems |-> "missing"]

\* No run has begun.
RunInit ==
    /\ rpc = "idle"
    /\ storeAtStart = store
    /\ toProcess = <<>>
    /\ skipped = {}
    /\ bi = 0
    /\ bj = 0
    /\ copied = <<>>
    /\ scratch = 0
    /\ processed = 0
    /\ rexit = "none"
    /\ runNo = 0
    /\ copyFailed = {}
    /\ stagedLog = <<>>
    /\ tempBatchDir = {}
    /\ batchLog = <<>>
    /\ submitLog = <<>>
    /\ lateSubmit = FALSE
    /\ abortAt = 0
    /\ abortKind = "none"
    /\ stopsInRun = 0
    /\ startAsked = FALSE

\* ------------------------------------------------------------ PaperDownloader

\* The target paths the tasks may name.
Paths == 1..MaxPaths

\* The success members of DownloadStatus.
SuccessStatuses == {"SUCCESS_DOWNLOADED", "SUCCESS_SKIPPED_EXISTS"}

\* The target_path of the task download_pdfs() is at.
CurPath == tasks[di + 1].path

\* Line 21: `skip_if_exists and os.path.exists(target_path) and
\* os.path.getsize(target_path) > 0`.
SkipsExisting(skip, f) == skip /\ f \notin {"missing", "empty"}

\* What one more chunk makes of a file opened with "wb": it never shrinks.
Grown(f) == IF f = "empty" THEN {"small", "big"} ELSE {"big"}

\* Faulty variant of CleanupRemoves: os.remove is indented under the size test,
\* so only files below 1024 bytes are removed.
CleanupRemoves_onlySmall(f) == f \in {"empty", "small"}

\* _cleanup_failed_download, lines 61-66: the size test guards the message
\* only; every file that exists is handed to os.remove.
CleanupRemoves(f) == f # "missing"

\* Faulty variant of WaitsAfter: download_pdfs sleeps after every task.
WaitsAfter_always(st) == TRUE

\* Lines 93-95: the statuses after which download_pdfs sleeps.
WaitsAfter(st) ==
    st \in {"SUCCESS_DOWNLOADED", "FAILED_DOWNLOAD_ERROR", "FAILED_DIRECTORY_CREATION"}

\* Line 90: `if i < len(url_path_list) - 1`.
NotLastTask(i) == i < Len(tasks) - 1

\* download_pdf returns st to download_pdfs.
PdfReturns(st) ==
    /\ status' = st
    /\ ppc' = "ret"

\* download_pdfs(), lines 83-84: the call begins with an empty result list.
DownloadPdfs ==
    /\ dpc = "idle"
    /\ dpc' = IF tasks = <<>> THEN "done" ELSE "loop"
    /\ di' = 0
    /\ results' = <<>>
    /\ UNCHANGED <<tasks, skipIfExists, files, ppc, status, waitLog, callLog,
                   written, rmFailed>>
    /\ UNCHANGED <<envVars, mgrVars, cfgVars, runVars, ngVars, axVars>>

\* download_pdfs(), lines 84-87: the next task is handed to download_pdf().
DlNextTask ==
    /\ dpc = "loop"
    /\ dpc' = "in_pdf"
    /\ ppc' = "check"
    /\ status' = "none"
    /\ written' = "none"
    /\ rmFailed' = FALSE
    /\ callLog' = Append(callLog, di + 1)
    /\ UNCHANGED <<tasks, skipIfExists, files, di, results, waitLog>>
    /\ UNCHANGED <<envVars, mgrVars, cfgVars, runVars, ngVars, axVars>>

\* download_pdf(), lines 21-23: a file that is there and not empty is kept.
PdfCheck ==
    /\ dpc = "in_pdf"
    /\ ppc = "check"
    /\ IF SkipsExisting(skipIfExists, files[CurPath])
       THEN PdfReturns("SUCCESS_SKIPPED_EXISTS")
       ELSE /\ ppc' = "mkdir"
            /\ UNCHANGED status
    /\ UNCHANGED <<tasks, skipIfExists, files, dpc, di, results, waitLog, callLog,
                   written, rmFailed>>
    /\ UNCHANGED <<envVars, mgrVars, cfgVars, runVars, ngVars, axVars>>

\* download_pdf(), lines 26-32: os.makedirs of the directory of the target.
PdfMkdir ==
    /\ dpc = "in_pdf"
    /\ ppc = "mkdir"
    /\ \E ok \in BOOLEAN :
        IF ok
        THEN /\ ppc' = "get"
             /\ UNCHANGED status
        ELSE PdfReturns("FAILED_DIRECTORY_CREATION")
    /\ UNCHANGED <<tasks, skipIfExists, files, dpc, di, results, waitLog, callLog,
                   written, rmFailed>>
    /\ UNCHANGED <<envVars, mgrVars, cfgVars, runVars, ngVars, axVars>>

\* download_pdf(), lines 41-42: session.get and raise_for_status; a network
\* or HTTP error goes to the handler of line 50.
PdfGet ==
    /\ dpc = "in_pdf"
    /\ ppc = "get"
    /\ \E ok \in BOOLEAN : ppc' = IF ok THEN "open" ELSE "cleanup"
    /\ UNCHANGED <<tasks, skipIfExists, files, dpc, di, status, results, waitLog,
                   callLog, written, rmFailed>>
    /\ UNCHANGED <<envVars, mgrVars, cfgVars, runVars, ngVars, axVars>>

\* download_pdf(), line 44: open(target_path, "wb") creates or truncates the
\* file; an OSError goes to the handler of line 54.
PdfOpen ==
    /\ dpc = "in_pdf"
    /\ ppc = "open"
    /\ \E ok \in BOOLEAN :
        IF ok
        THEN /\ files' = [files EXCEPT ![CurPath] = "empty"]
             /\ written' = "empty"
             /\ ppc' = "write"
        ELSE /\ ppc' = "cleanup"
             /\ UNCHANGED <<files, written>>
    /\ UNCHANGED <<tasks, skipIfExists, dpc, di, status, results, waitLog,
                   callLog, rmFailed>>
    /\ UNCHANGED <<envVars, mgrVars, cfgVars, runVars, ngVars, axVars>>

\* download_pdf(), lines 45-49: the body is written chunk by chunk. The stream
\* may end, after any number of chunks and also after none, or break, and a
\* write may fail.
PdfWrite ==
    /\ dpc = "in_pdf"
    /\ ppc = "write"
    /\ \E out \in {"chunk", "end", "error"} :
        IF out = "chunk"
        THEN /\ \E g \in Grown(files[CurPath]) :
                   /\ g # files[CurPath]
                   /\ files' = [files EXCEPT ![CurPath] = g]
                   /\ written' = g
             /\ UNCHANGED <<ppc, status>>
        ELSE IF out = "end"
        THEN /\ PdfReturns("SUCCESS_DOWNLOADED")
             /\ UNCHANGED <<files, written>>
        ELSE /\ ppc' = "cleanup"
             /\ UNCHANGED <<files, written, status>>
    /\ UNCHANGED <<tasks, skipIfExists, dpc, di, results, waitLog, callLog,
                   rmFailed>>
    /\ UNCHANGED <<envVars, mgrVars, cfgVars, runVars, ngVars, axVars>>

\* download_pdf(), lines 50-57, and _cleanup_failed_download, lines 59-68: the
\* file at target_path, whoever wrote it, is removed; an OSError of os.remove
\* is printed and the file stays.
PdfCleanup ==
    /\ dpc = "in_pdf"
    /\ ppc = "cleanup"
    /\ IF CleanupRemoves(files[CurPath])
       THEN \E ok \in BOOLEAN :
               /\ files' = [files EXCEPT ![CurPath] = IF ok THEN "missing" ELSE @]
               /\ rmFailed' = ~ok
       ELSE UNCHANGED <<files, rmFailed>>
    /\ PdfReturns("FAILED_DOWNLOAD_ERROR")
    /\ UNCHANGED <<tasks, skipIfExists, dpc, di, results, waitLog, callLog, written>>
    /\ UNCHANGED <<envVars, mgrVars, cfgVars, runVars, ngVars, axVars>>

\* download_pdfs(), lines 88-101 and 104: the result is appended, the call
\* sleeps or not, and goes to the next task or returns.
DlAppend ==
    /\ dpc = "in_pdf"
    /\ ppc = "ret"
    /\ results' = Append(results, [url |-> tasks[di + 1].url,
                                   path |-> tasks[di + 1].path,
                                   status |-> status])
    /\ waitLog' = IF NotLastTask(di) /\ WaitsAfter(status)
                  THEN Append(waitLog, di + 1)
                  ELSE waitLog
    /\ di' = di + 1
    /\ dpc' = IF di + 1 < Len(tasks) THEN "loop" ELSE "done"
    /\ ppc' = "idle"
    /\ UNCHANGED <<tasks, skipIfExists, files, status, callLog, written, rmFailed>>
    /\ UNCHANGED <<envVars, mgrVars, cfgVars, runVars, ngVars, axVars>>

\* The task lists of up to MaxTasks tasks: task x has the x-th url.
TaskLists ==
    UNION {[1..n -> Paths] : n \in 0..MaxTasks}

\* A PaperDownloader about to be handed a task list, and the files that may
\* be at the target paths by then.
DlInit ==
    /\ \E tl \in TaskLists :
          tasks = [x \in DOMAIN tl |-> [url |-> x, path |-> tl[x]]]
    /\ skipIfExists \in BOOLEAN
    /\ files \in [Paths -> {"missing", "empty", "big"}]
    /\ dpc = "idle"
    /\ di = 0
    /\ ppc = "idle"
    /\ status = "none"
    /\ results = <<>>
    /\ waitLog = <<>>
    /\ callLog = <<>>
    /\ written = "none"
    /\ rmFailed = FALSE

\* No download is asked for.
DlIdle ==
    /\ tasks = <<>>
    /\ skipIfExists = TRUE
    /\ files = [p \in Paths |-> "missing"]
    /\ dpc = "idle"
    /\ di = 0
    /\ ppc = "idle"
    /\ status = "none"
    /\ results = <<>>
    /\ waitLog = <<>>
    /\ callLog = <<>>
    /\ written = "none"
    /\ rmFailed = FALSE

\* ------------------------------------------------------ NougatPaperParser.run

\* glob.glob(os.path.join(input_pdf_dir, "*.pdf")), line 250, in glob order.
AllPdfFiles == [i \in 1..nPdfs |-> i]

\* Faulty variant of MmdSkips: an output that exists is enough, empty or not.
MmdSkips_existsOnly(i) == ~forceProcess /\ mmd[i] # "missing"

\* Line 258: `not self.force_process and mmd_p.exists() and st_size > 0`.
MmdSkips(i) == ~forceProcess /\ mmd[i] = "full"

\* What process_pdf (lines 55-100) does for run(): it returns, or raises
\* RuntimeError (nougat exited non-zero, or ran into the 1800 s timeout), or
\* re-raises any other exception.
ProcessOutcomes == {"ok", "RuntimeError", "Exception"}

\* run(), lines 248-252: a call begins; with no PDF it returns at once.
NougatRun ==
    /\ npc = "idle"
    /\ mmdAtStart' = mmd
    /\ pdfFilesToProcess' = <<>>
    /\ mmdSkipped' = 0
    /\ success' = 0
    /\ failed' = 0
    /\ processLog' = <<>>
    /\ npc' = IF AllPdfFiles = <<>> THEN "done" ELSE "filter"
    /\ UNCHANGED <<nPdfs, forceProcess, mmd>>
    /\ UNCHANGED <<envVars, mgrVars, cfgVars, runVars, dlVars, axVars>>

\* run(), lines 254-264: the skip filter; nothing left to process returns.
NougatFilter ==
    /\ npc = "filter"
    /\ pdfFilesToProcess' = SelectSeq(AllPdfFiles, LAMBDA i : ~MmdSkips(i))
    /\ mmdSkipped' = Cardinality({i \in 1..nPdfs : MmdSkips(i)})
    /\ npc' = IF pdfFilesToProcess' = <<>> THEN "done" ELSE "process"
    /\ UNCHANGED <<nPdfs, forceProcess, mmd, mmdAtStart, success, failed, processLog>>
    /\ UNCHANGED <<envVars, mgrVars, cfgVars, runVars, dlVars, axVars>>

\* run(), lines 267-274: one PDF is handed to process_pdf; a return counts
\* as a success (whether the output appeared or not), both handlers count a
\* failure and the loop goes on.
NougatProcess ==
    /\ npc = "process"
    /\ Len(processLog) < Len(pdfFilesToProcess)
    /\ LET pdf == pdfFilesToProcess[Len(processLog) + 1] IN
       \E out \in ProcessOutcomes, wrote \in {"missing", "empty", "full"} :
          /\ mmd' = [mmd EXCEPT ![pdf] = IF out = "ok" /\ wrote # "missing"
                                         THEN wrote ELSE @]
          /\ processLog' = Append(processLog, [pdf |-> pdf, out |-> out])
          /\ success' = IF out = "ok" THEN success + 1 ELSE success
          /\ failed' = IF out = "ok" THEN failed ELSE failed + 1
    /\ UNCHANGED <<nPdfs, forceProcess, mmdAtStart, pdfFilesToProcess, mmdSkipped, npc>>
    /\ UNCHANGED <<envVars, mgrVars, cfgVars, runVars, dlVars, axVars>>

\* run(), lines 276-277: the loop is over, the totals are printed.
NougatFinish ==
    /\ npc = "process"
    /\ Len(processLog) = Len(pdfFilesToProcess)
    /\ npc' = "done"
    /\ UNCHANGED <<nPdfs, forceProcess, mmd, mmdAtStart, pdfFilesToProcess,
                   mmdSkipped, success, failed, processLog>>
    /\ UNCHANGED <<envVars, mgrVars, cfgVars, runVars, dlVars, axVars>>

\* A NougatPaperParser about to run on up to MaxPdfs PDFs, each with no
\* output, an empty output or a non-empty output.
NougatInit ==
    /\ nPdfs \in 0..MaxPdfs
    /\ forceProcess \in BOOLEAN
    /\ mmd \in [1..MaxPdfs -> {"missing", "empty", "full"}]
    /\ \A i \in 1..MaxPdfs : i > nPdfs => mmd[i] = "missing"
    /\ mmdAtStart = mmd
    /\ pdfFilesToProcess = <<>>
    /\ mmdSkipped = 0
    /\ success = 0
    /\ failed = 0
    /\ processLog = <<>>
    /\ npc = "idle"

\* No NougatPaperParser at work.
NougatIdle ==
    /\ nPdfs = 0
    /\ forceProcess = FALSE
    /\ mmd = [i \in 1..MaxPdfs |-> "missing"]
    /\ mmdAtStart = mmd
    /\ pdfFilesToProcess = <<>>
    /\ mmdSkipped = 0
    /\ success = 0
    /\ failed = 0
    /\ processLog = <<>>
    /\ npc = "idle"

\* ------------------------------------------------- ArxivSource.fetch_papers

\* The numbers of entries a page of the API may hold: none, one, a full page.
PageSizes == {0, 1, results_per_page}

\* opensearch:totalResults as the feed reports it, -1 when it is absent.
TotalsReported == {-1, 0, 1, 150, 250}

\* `total_results_for_query is None`, line 56: None is written -1.
IsNone(t) == t < 0

\* `total_results_for_query or 0`, line 125.
TotalOrZero(t) == IF IsNone(t) THEN 0 ELSE t

\* start_index counted up to MaxStart: beyond it the model no longer tells
\* one index from the next, and keeps in `tick` that each request has a
\* start_index of its own.
UpToMaxStart(n) == IF n < MaxStart THEN n ELSE MaxStart

\* Line 46: the failed request was the first one and nothing was fetched.
FirstFetch(s, f) == s = 0 /\ f = 0

\* fetch_papers(), lines 24-35: a call begins.
FetchPapers ==
    /\ apc = "idle"
    /\ apc' = "request"
    /\ start_index' = 0
    /\ fetched_count' = 0
    /\ total_results_for_query' = -1
    /\ papers' = 0
    /\ UNCHANGED <<feedEntries, feedTotal, failedRequests, okPages, tick>>
    /\ UNCHANGED <<envVars, mgrVars, cfgVars, runVars, dlVars, ngVars>>

\* fetch_papers(), lines 38-52: one request. A failure sleeps 10 s, then
\* returns the papers if it was the first fetch, else moves start_index on by
\* a page and loops; a response is handed to the parser.
FetchRequest ==
    /\ apc = "request"
    /\ tick' = 1 - tick
    /\ \E ok \in BOOLEAN :
        IF ok
        THEN /\ \E n \in PageSizes, t \in TotalsReported :
                  /\ feedEntries' = n
                  /\ feedTotal' = t
             /\ apc' = "page"
             /\ UNCHANGED <<start_index, failedRequests>>
        ELSE /\ failedRequests' = TRUE
             /\ IF FirstFetch(start_index, fetched_count)
                THEN /\ apc' = "done"
                     /\ UNCHANGED start_index
                ELSE /\ start_index' = UpToMaxStart(start_index + results_per_page)
                     /\ UNCHANGED apc
             /\ UNCHANGED <<feedEntries, feedTotal>>
    /\ UNCHANGED <<fetched_count, total_results_for_query, papers, okPages>>
    /\ UNCHANGED <<envVars, mgrVars, cfgVars, runVars, dlVars, ngVars>>

\* fetch_papers(), lines 54-132: the page is parsed; the total is taken from
\* the first feed that reports one; an empty page ends the loop; else the
\* entries are appended, and the loop ends when start_index plus the entries
\* reaches the total, else start_index moves on by the entries.
FetchPage ==
    /\ apc = "page"
    /\ LET total == IF IsNone(total_results_for_query) THEN feedTotal
                    ELSE total_results_for_query
       IN /\ total_results_for_query' = total
          /\ IF feedEntries = 0
             THEN /\ apc' = "done"
                  /\ UNCHANGED <<papers, fetched_count, start_index, okPages>>
             ELSE /\ papers' = papers + feedEntries
                  /\ fetched_count' = fetched_count + feedEntries
                  /\ okPages' = TRUE
                  /\ IF start_index + feedEntries >= TotalOrZero(total)
                     THEN /\ apc' = "done"
                          /\ UNCHANGED start_index
                     ELSE /\ start_index' = UpToMaxStart(start_index + feedEntries)
                          /\ apc' = "request"
    /\ feedEntries' = 0
    /\ feedTotal' = -1
    /\ UNCHANGED <<failedRequests, tick>>
    /\ UNCHANGED <<envVars, mgrVars, cfgVars, runVars, dlVars, ngVars>>

\* No fetch_papers call at work.
ArxivIdle ==
    /\ apc = "idle"
    /\ start_index = 0
    /\ fetched_count = 0
    /\ total_results_for_query = -1
    /\ papers = 0
    /\ feedEntries = 0
    /\ feedTotal = -1
    /\ failedRequests = FALSE
    /\ okPages = FALSE
    /\ tick = 0

\* ------------------------------------------------------------ specifications

\* PaperParser.run driving its own GrobidManager.
Init == EnvInit /\ MgrInit /\ CfgInit /\ RunInit /\ DlIdle /\ NougatIdle /\ ArxivIdle
Next == RunStep \/ MgrStep(PM) \/ EnvCrash \/ EnvDirs
Spec == Init /\ [][Next]_vars

\* A GrobidManager called directly: start() and stop() in any order.
InitMgr == Init /\ force = FALSE /\ batchSize = 1
NextMgr == CallStart(PM) \/ CallStop(PM) \/ MgrStep(PM) \/ EnvCrash
SpecMgr == InitMgr /\ [][NextMgr]_vars

\* A PaperDownloader handed a task list: download_pdfs() and the
\* download_pdf() calls it makes; no parser is at work.
InitDl ==
    /\ EnvInit /\ dockerOK /\ ctr = "absent"
    /\ MgrInit
    /\ CfgInit /\ force = FALSE /\ batchSize = 1
    /\ RunInit
    /\ DlInit
    /\ NougatIdle /\ ArxivIdle
NextDl ==
    \/ DownloadPdfs
    \/ DlNextTask
    \/ PdfCheck
    \/ PdfMkdir
    \/ PdfGet
    \/ PdfOpen
    \/ PdfWrite
    \/ PdfCleanup
    \/ DlAppend
SpecDl == InitDl /\ [][NextDl]_vars

\* The parts of the program that take no part in a specification, at rest.
RestIdle ==
    /\ EnvInit /\ dockerOK /\ ctr = "absent"
    /\ MgrInit
    /\ CfgInit /\ force = FALSE /\ batchSize = 1
    /\ RunInit
    /\ DlIdle

\* One call of NougatPaperParser.run.
InitNougat == RestIdle /\ NougatInit /\ ArxivIdle
NextNougat == NougatRun \/ NougatFilter \/ NougatProcess \/ NougatFinish
SpecNougat == InitNougat /\ [][NextNougat]_vars

\* One call of ArxivSource.fetch_papers against an API that answers each
\* request as it likes. The call is a running thread of control: whenever it
\* has a next step it takes it, which is the weak fairness of NextArxiv; what
\* the API answers is not constrained.
InitArxiv == RestIdle /\ NougatIdle /\ ArxivIdle
NextArxiv == FetchPapers \/ FetchRequest \/ FetchPage
SpecArxiv == InitArxiv /\ [][NextArxiv]_vars /\ WF_vars(NextArxiv)

\* ------------------------------------------------------------------ claims

\* The items of the client.process calls of the current run that returned.
RECURSIVE OkItems(_)
OkItems(log) ==
    IF log = <<>> THEN {}
    ELSE (IF log[1].out = "ok" THEN SetOf(log[1].items) ELSE {}) \cup OkItems(Tail(log))

RECURSIVE StagedItems(_)
StagedItems(log) ==
    IF log = <<>> THEN {} ELSE SetOf(log[1]) \cup StagedItems(Tail(log))

Accounted == Cardinality(skipped) + processed + Cardinality(copyFailed)
RunOver == rpc = "idle" /\ runNo > 0
Leaving == rpc \in {"finally", "wait_stop", "idle"}

\* C1 as claimed: on every exit of run, the items reported skipped, submitted
\* and failed add up to the number of input items.
C1_AllAccountedOnEveryExit == RunOver => Accounted = nItems

\* C1, amended: when run ends by a normal or early return, every input item is
\* exactly one of skipped, submitted, copy-failed and the three counts add up to
\* the number of input items; on every exit the counts never exceed it.
C1_AccountedOnReturn ==
    /\ Accounted <= nItems
    /\ processed = Cardinality(OkItems(submitLog))
    /\ (Leaving /\ rexit = "return") =>
          /\ skipped \cup OkItems(submitLog) \cup copyFailed = Items
          /\ skipped \cap OkItems(submitLog) = {}
          /\ skipped \cap copyFailed = {}
          /\ copyFailed \cap OkItems(submitLog) = {}
          /\ Accounted = nItems

C1_Witness ==
    /\ RunOver /\ rexit = "return"
    /\ skipped # {} /\ copyFailed # {} /\ processed > 0

\* C2: a start() that launched the container and saw no healthy poll makes
\* exactly 30 polls, fetches the logs once, calls stop() once and raises; it
\* never returns normally, never polls a 31st time, and leaves no client bound.
C2_ExhaustedAfter30Polls ==
    \A m \in AllMgrs :
        /\ pollI[m] <= 30
        /\ (launchedNow[m] /\ ~everHealthy[m]) =>
              /\ last[m] # "start_ok" \/ spc[m] # "idle"
              /\ spc[m] \in {"idle", "grace", "poll", "wait_stop_186"}
              /\ spc[m] \in {"idle", "wait_stop_186"} =>
                    pollI[m] = 30 /\ logsN[m] = 1 /\ stopsN[m] = 1
              /\ (spc[m] = "idle" /\ last[m] = "start_err") => ~client[m]
              /\ (spc[m] = "idle" /\ tpc[m] = "idle") => last[m] \in {"start_err", "stop"}

C2_Witness ==
    /\ launchedNow[PM] /\ ~everHealthy[PM]
    /\ spc[PM] = "idle" /\ last[PM] = "start_err"
    /\ pollI[PM] = 30 /\ stopsN[PM] = 1 /\ logsN[PM] = 1

\* C3 as claimed: a stop() that follows a start() which found a container
\* launched by somebody else healthy issues no docker stop and no docker rm
\* against that container.
C3_ExternalContainerLeftAlone ==
    \A m \in AllMgrs :
        (adopted[m] /\ tpc[m] = "idle" /\ last[m] = "stop") => stopCmds[m] = {}

\* C4 as claimed: after a start() that failed, no client is bound.
C4_NoClientAfterFailedStart ==
    \A m \in AllMgrs :
        (spc[m] = "idle" /\ last[m] = "start_err") => ~client[m]

\* C5: once client.process of batch k has raised a ConnectionError, run is on
\* its way out with RuntimeError: batch k is the last batch staged and the last
\* submitted, the directory of batch k is gone, and the submitted count is that
\* of the batches before k.
C5_ConnectionErrorAborts ==
    abortKind = "conn" =>
        /\ Leaving
        /\ rexit = "RuntimeError"
        /\ scratch = 0
        /\ Len(stagedLog) = abortAt
        /\ submitLog # <<>>
        /\ submitLog[Len(submitLog)].k = abortAt
        /\ submitLog[Len(submitLog)].out = "conn"
        /\ \A x \in 1..(Len(submitLog) - 1) :
              submitLog[x].out = "ok" /\ submitLog[x].k < abortAt
        /\ processed = Cardinality(OkItems(submitLog))

C5_Witness ==
    /\ RunOver /\ abortKind = "conn"
    /\ abortAt = 2 /\ TotalBatches = 3 /\ processed > 0

\* C6 as claimed: a client.process error that is not a ConnectionError does
\* not abort run; every later batch is still staged and run returns.
C6_OtherErrorLocalized ==
    (RunOver /\ abortKind = "other") =>
        rexit = "return" /\ Len(stagedLog) = TotalBatches

\* C6, amended: a client.process error that is not a ConnectionError aborts run
\* too: the exception is re-raised as it is, batch k is the last batch staged
\* and submitted, its directory is gone and its items are not counted.
C6_OtherErrorAborts ==
    abortKind = "other" =>
        /\ Leaving
        /\ rexit = "Exception"
        /\ scratch = 0
        /\ Len(stagedLog) = abortAt
        /\ submitLog # <<>>
        /\ submitLog[Len(submitLog)].k = abortAt
        /\ submitLog[Len(submitLog)].out = "other"
        /\ SetOf(submitLog[Len(submitLog)].items) \cap OkItems(submitLog) = {}
        /\ processed = Cardinality(OkItems(submitLog))

C6_Witness ==
    /\ RunOver /\ abortKind = "other"
    /\ abortAt = 2 /\ TotalBatches = 3 /\ processed > 0

\* C7: a run that called start() has, when it is over, called stop() from its
\* finally clause exactly once, stop() being the last call the manager
\* completed; no client.process call is made once stop() has been invoked.
C7_StopOnEveryExit ==
    /\ (startAsked /\ rpc = "idle") => (stopsInRun = 1 /\ last[PM] = "stop")
    /\ stopsInRun > 0 => rpc \in {"wait_stop", "idle"}
    /\ stopsInRun <= 1
    /\ ~lateSubmit

C7_Witness ==
    /\ RunOver /\ rexit = "Exception" /\ stopsInRun = 1 /\ submitLog # <<>>

\* C8: the batch directory exists exactly while its batch is being staged and
\* submitted: one directory during a batch, none between batches, none once
\* run is leaving, whatever ended the batch.
C8_ScratchScopedToBatch ==
    /\ scratch = (IF rpc = "copy" THEN 1 ELSE 0)
    /\ (rpc = "copy" /\ copied # <<>>) => scratch = 1
    /\ Leaving => scratch = 0

C8_Witness ==
    /\ RunOver /\ abortKind = "conn" /\ scratch = 0
    /\ Len(stagedLog) = 3 /\ stagedLog[1] = <<>> /\ stagedLog[2] # <<>>

\* C9 as claimed: with force off an item is skipped, and never staged, if and
\* only if its artifact exists and is non-empty; with force on none is skipped.
C9_SkippedIffNonEmptyArtifact ==
    rpc \in {"batch", "copy"} =>
        /\ \A i \in Items : i \in skipped <=> (~force /\ storeAtStart[i] = "full")
        /\ skipped \cap (StagedItems(stagedLog) \cup copyFailed) = {}

\* The current run found the artifact of every item in the output directory.
AllProduced == \A i \in Items : storeAtStart[i] = "full"

RECURSIVE Flatten(_)
Flatten(log) == IF log = <<>> THEN <<>> ELSE log[1] \o Flatten(Tail(log))

CeilDiv(n, d) == IF n % d = 0 THEN n \div d ELSE (n \div d) + 1

\* The skip filter of the current run has run.
PastFilter ==
    \/ rpc \in {"batch", "copy"}
    \/ Leaving /\ runNo > 0 /\ (rexit = "return" \/ abortKind # "none")

\* C11: the items to process are the non-skipped items in input order; the
\* batches cut so far are consecutive slices of them, each of batchSize items
\* but possibly the last, which holds at least one; when the loop is over
\* every non-skipped item is in exactly one batch and the number of batches is
\* ceil(n / batchSize), the value the code prints as total_batches.
C11_ConsecutiveBatches ==
    /\ PastFilter =>
          /\ SetOf(toProcess) = Items \ skipped
          /\ \A x, y \in 1..Len(toProcess) : x < y => toProcess[x] < toProcess[y]
          /\ TotalBatches = CeilDiv(Len(toProcess), batchSize)
    /\ Len(Flatten(batchLog)) <= Len(toProcess)
    /\ Flatten(batchLog) = SubSeq(toProcess, 1, Len(Flatten(batchLog)))
    /\ \A k \in 1..Len(batchLog) :
          /\ Len(batchLog[k]) \in 1..batchSize
          /\ k < Len(batchLog) => Len(batchLog[k]) = batchSize
          /\ (Len(batchLog[k]) < batchSize) => Len(Flatten(batchLog)) = Len(toProcess)
    /\ (Leaving /\ rexit = "return") =>
          /\ Flatten(batchLog) = toProcess
          /\ Len(batchLog) = CeilDiv(Len(toProcess), batchSize)

C11_Witness ==
    /\ RunOver /\ rexit = "return" /\ batchSize = 2
    /\ nItems = 3 /\ skipped = {2}
    /\ batchLog = << <<1, 3>> >>

\* C12 as claimed: a stop() called right after a stop() has returned issues no
\* docker stop and no docker rm, so that it leaves the container as it is, and
\* it leaves the client unbound and the ownership flag false.
C12_SecondStopIsNoOp ==
    \A m \in AllMgrs :
        (again[m] /\ spc[m] = "idle" /\ tpc[m] = "idle" /\ last[m] = "stop") =>
            /\ stopCmds[m] = {}
            /\ ~client[m]
            /\ ~started[m]

\* C13: stop() never raises: whatever the docker commands do (docker missing,
\* container absent, docker stop exiting non-zero, timing out or failing
\* otherwise), stop() returns normally, and once it has returned the client is
\* unbound and the ownership flag is false.
C13_StopNeverRaises ==
    \A m \in AllMgrs :
        /\ last[m] # "stop_err"
        /\ (spc[m] = "idle" /\ tpc[m] = "idle" /\ last[m] = "stop") =>
              (~client[m] /\ ~started[m])

C13_Witness ==
    /\ spc[PM] = "idle" /\ tpc[PM] = "idle" /\ last[PM] = "stop"
    /\ launcher = PM /\ ctr = "running" /\ stopCmds[PM] = {"stop"}
    /\ ~client[PM] /\ ~started[PM]

\* C14 as claimed: a run over an input directory that holds no PDF does not
\* touch the controller: start() is not called and stop() is not called.
C14_EmptyInputNoController ==
    (dirsSet /\ nItems = 0) => (~startAsked /\ stopsInRun = 0)

\* The number of staged items handed to the client.process calls that returned.
RECURSIVE OkCount(_)
OkCount(log) ==
    IF log = <<>> THEN 0
    ELSE (IF log[1].out = "ok" THEN Len(log[1].items) ELSE 0) + OkCount(Tail(log))

\* C15: the submitted count never exceeds the number of items staged for the
\* batches whose client.process returned; what a submission is handed is what
\* was copied into the directory of its batch; an item whose copy failed, or
\* whose batch submission raised, is in no batch that counts.
C15_SubmittedOnlyIfStaged ==
    /\ processed <= OkCount(submitLog)
    /\ OkItems(submitLog) \subseteq StagedItems(stagedLog)
    /\ OkItems(submitLog) \cap copyFailed = {}
    /\ \A x \in 1..Len(submitLog) :
          /\ submitLog[x].k \in 1..Len(stagedLog)
          /\ submitLog[x].items = stagedLog[submitLog[x].k]
          /\ submitLog[x].items # <<>>
          /\ submitLog[x].out # "ok" =>
                SetOf(submitLog[x].items) \cap OkItems(submitLog) = {}

C15_Witness ==
    /\ RunOver /\ processed = 1 /\ copyFailed # {} /\ abortKind = "other"
    /\ Len(submitLog) = 2

\* C16: run lists, stages and submits only while it holds the client of a
\* start() that returned: the client is bound, start() is the last call the
\* manager completed and stop() has not been called since; a run whose
\* start() failed stages and submits nothing, and no client.process call is
\* made once stop() has been invoked.
C16_ClientUsedOnlyWhileHeld ==
    /\ rpc \in {"filter", "batch", "copy"} =>
          /\ client[PM] /\ last[PM] = "start_ok"
          /\ spc[PM] = "idle" /\ tpc[PM] = "idle"
          /\ stopsInRun = 0 /\ stopsN[PM] = 0
    /\ (Leaving /\ rexit = "RuntimeError" /\ abortKind = "none") =>
          (submitLog = <<>> /\ stagedLog = <<>>)
    /\ (stopsInRun > 0 /\ tpc[PM] = "idle") => ~client[PM]
    /\ ~lateSubmit

C16_Witness ==
    /\ RunOver /\ rexit = "return" /\ Len(submitLog) = 2
    /\ ~client[PM] /\ last[PM] = "stop" /\ stopsInRun = 1

\* A start() that launched the container has seen no healthy poll and is past
\* its polling loop.
PollingExhausted(m) ==
    /\ launchedNow[m] /\ ~everHealthy[m]
    /\ spc[m] \in {"idle", "wait_stop_186"}

\* C17 as claimed: when no poll succeeds, start() has slept
\* grace delay + interval x max attempts = 10 + 5 x 30 = 160 seconds in all.
C17_SleepsGracePlusAllIntervals ==
    \A m \in AllMgrs :
        PollingExhausted(m) => slept[m] = grace_delay + wait_interval * max_retries

\* C17, amended: start() sleeps the grace delay and then the interval between
\* two polls only, not after the last: when no poll succeeds it has slept
\* 10 + 5 x (30 - 1) = 155 seconds in all, and at no point more than that.
C17_SleepsGracePlusIntervalsBetween ==
    \A m \in AllMgrs :
        /\ slept[m] <= grace_delay + wait_interval * (max_retries - 1)
        /\ PollingExhausted(m) =>
              slept[m] = grace_delay + wait_interval * (max_retries - 1)
        /\ (spc[m] = "poll" /\ launchedNow[m]) =>
              slept[m] = grace_delay + wait_interval * (IF pollI[m] < max_retries
                                                       THEN pollI[m]
                                                       ELSE max_retries - 1)

C17_Witness ==
    /\ PollingExhausted(PM) /\ spc[PM] = "idle" /\ last[PM] = "start_err"
    /\ slept[PM] = 155 /\ pollI[PM] = max_retries

\* The file at path p exists and is not empty.
NonEmptyFile(p) == files[p] \notin {"missing", "empty"}

\* C18 as claimed: whenever download_pdf returns a success status, a
\* non-empty file is at target_path, and when download_pdfs returns, a
\* non-empty file is at the target_path of every task it reports as a success.
C18_SuccessMeansNonEmptyFile ==
    /\ (ppc = "ret" /\ status \in SuccessStatuses) => NonEmptyFile(CurPath)
    /\ dpc = "done" =>
          \A x \in 1..Len(results) :
              results[x].status \in SuccessStatuses => NonEmptyFile(results[x].path)

\* download_pdf is about to return FAILED_DOWNLOAD_ERROR.
FailedDownload == ppc = "ret" /\ status = "FAILED_DOWNLOAD_ERROR"

\* C19 as claimed: whenever download_pdf returns FAILED_DOWNLOAD_ERROR, the
\* file it has opened and written to, if any, is not left at target_path.
C19_NoPartialFileAfterFailure ==
    (FailedDownload /\ written # "none") => files[CurPath] = "missing"

\* C19, amended: whenever download_pdf returns FAILED_DOWNLOAD_ERROR it has
\* handed the file at target_path, if there was one, to os.remove: no file,
\* partially written or not, is left there unless that removal itself failed.
C19_NoFileUnlessRemoveFailed ==
    FailedDownload => (files[CurPath] = "missing" \/ rmFailed)

C19_Witness ==
    /\ FailedDownload /\ written = "big" /\ files[CurPath] = "missing" /\ ~rmFailed

\* The task numbers 1..n in order.
UpTo(n) == [x \in 1..n |-> x]

\* C20: download_pdfs calls download_pdf once per task, in input order, and
\* appends one (url, target_path, status) tuple per task in that order,
\* whatever the earlier tasks returned; when it returns every task has its
\* tuple; it has slept after task x exactly when x is not the last task and
\* the status of x is not SUCCESS_SKIPPED_EXISTS.
C20_OneResultPerTaskInOrder ==
    /\ callLog = UpTo(Len(callLog))
    /\ Len(results) <= Len(tasks)
    /\ Len(callLog) = Len(results) + (IF dpc = "in_pdf" THEN 1 ELSE 0)
    /\ \A x \in 1..Len(results) :
          /\ results[x].url = tasks[x].url
          /\ results[x].path = tasks[x].path
          /\ results[x].status \in {"SUCCESS_DOWNLOADED", "SUCCESS_SKIPPED_EXISTS",
                                    "FAILED_DOWNLOAD_ERROR", "FAILED_DIRECTORY_CREATION"}
          /\ x \in SetOf(waitLog) <=>
                (x < Len(tasks) /\ results[x].status # "SUCCESS_SKIPPED_EXISTS")
    /\ \A w \in 1..Len(waitLog) : waitLog[w] \in 1..Len(results)
    /\ \A v, w \in 1..Len(waitLog) : v < w => waitLog[v] < waitLog[w]
    /\ dpc = "done" => (Len(results) = Len(tasks) /\ Len(callLog) = Len(tasks))

C20_Witness ==
    /\ dpc = "done" /\ Len(tasks) = 3
    /\ results[1].status = "FAILED_DOWNLOAD_ERROR"
    /\ results[2].status = "SUCCESS_SKIPPED_EXISTS"
    /\ results[3].status = "SUCCESS_DOWNLOADED"
    /\ waitLog = <<1>>

\* C21 as claimed: a start() that found the service healthy on its first probe
\* and could not build the client goes on to relaunch: when it ends it has
\* attempted a docker run.
C21_ProbeBindFailureRestarts ==
    \A m \in AllMgrs :
        ("probe_bind_failed" \in trail[m] /\ spc[m] = "idle") =>
            trail[m] \cap {"launch_ok", "launch_failed"} # {}

\* C21, amended: such a start() fails at once: it raises RuntimeError without
\* removing or launching a container, without polling, without fetching logs
\* and without calling stop().
C21_ProbeBindFailureRaisesAtOnce ==
    \A m \in AllMgrs :
        "probe_bind_failed" \in trail[m] =>
            /\ spc[m] = "idle"
            /\ trail[m] = {"probe_healthy", "probe_bind_failed", "raised"}
            /\ last[m] \in {"start_err", "stop"}
            /\ ~launchedNow[m]
            /\ pollI[m] = 0 /\ slept[m] = 0 /\ logsN[m] = 0 /\ stopsN[m] = 0

C21_Witness ==
    /\ "probe_bind_failed" \in trail[PM]
    /\ spc[PM] = "idle" /\ last[PM] = "start_err"
    /\ ctr = "running" /\ ~client[PM]


\* C22: race-closing double-check. After a launch, start() succeeds only if
\* the liveness re-check made right before binding succeeded; when the re-check
\* fails the call fails and this call binds no client.
C22_BindOnlyAfterRecheck ==
    \A m \in AllMgrs :
        /\ ("launch_ok" \in trail[m] /\ spc[m] = "idle" /\ last[m] = "start_ok") =>
              /\ "recheck_ok" \in trail[m]
              /\ "recheck_dead" \notin trail[m]
              /\ tpc[m] = "idle" => client[m]
        /\ ("recheck_dead" \in trail[m] /\ spc[m] = "idle") =>
              /\ "raised" \in trail[m]
              /\ last[m] # "start_ok"
              /\ ~client[m]

C22_Witness ==
    /\ "recheck_dead" \in trail[PM]
    /\ spc[PM] = "idle" /\ tpc[PM] = "idle"
    /\ ~client[PM]
    /\ last[PM] \in {"start_err"}


\* C23 as claimed: start() never attempts a launch while a stale container of
\* its name is still present.
C23_NoLaunchOnStale ==
    \A m \in AllMgrs : "launch_on_stale" \notin trail[m]

\* C23, amended: start() removes a container it found before launching, and
\* finding none is not an error; a failed removal is only reported, the launch
\* is attempted all the same on the container still present, that launch
\* fails and start() raises. A launch that succeeded found no container.
C23_LaunchOnStaleOnlyAfterFailedRemoval ==
    \A m \in AllMgrs :
        /\ "launch_on_stale" \in trail[m] =>
              /\ "rm_failed" \in trail[m]
              /\ {"launch_failed", "raised"} \subseteq trail[m]
              /\ "launch_ok" \notin trail[m]
              /\ spc[m] = "idle" /\ ~started[m] /\ ~launchedNow[m]
              /\ last[m] # "start_ok"
        /\ (trail[m] \cap {"rm_ok", "rm_failed"} # {} /\ spc[m] = "idle") =>
              trail[m] \cap {"launch_ok", "launch_failed"} # {}
        /\ (spc[m] = "launch" /\ ctr # "absent") => "rm_failed" \in trail[m]
        /\ (spc[m] = "launch" /\ trail[m] \cap {"rm_ok", "rm_failed"} = {}) =>
              ctr = "absent"

C23_Witness ==
    /\ {"rm_failed", "launch_on_stale", "raised"} \subseteq trail[PM]
    /\ spc[PM] = "idle" /\ last[PM] = "start_err"
    /\ ctr # "absent"


\* C26: every start() that fails after its docker run succeeded has fetched the
\* container logs exactly once and called stop() exactly once when it raises.
C26_OneLogFetchOneStopOnLateFailure ==
    \A m \in AllMgrs :
        ({"launch_ok", "raised"} \subseteq trail[m] /\ spc[m] = "idle") =>
            logsN[m] = 1 /\ stopsN[m] = 1


\* The state part of C27: the flag is set only while a docker run of this
\* instance has succeeded and no stop() has completed since (stop() clears the
\* flag in its finally clause, after the flag has guarded the forced
\* removal); it is clear after every stop() and after every start() whose
\* launch failed.
FlagMeansOwnLaunch ==
    \A m \in AllMgrs :
        /\ started[m] => ownLaunch[m]
        /\ (spc[m] = "idle" /\ tpc[m] = "idle" /\ last[m] \in {"stop", "stop_err"}) =>
              ~started[m]
        /\ "launch_failed" \in trail[m] => ~started[m]

\* The step part of C27: a start() that returns on its first, healthy probe
\* leaves the flag as it was.
HealthyProbeKeepsFlag ==
    \A m \in AllMgrs :
        (spc[m] = "probe" /\ spc'[m] = "idle") => started'[m] = started[m]

\* C27: ownership-flag invariant of GrobidManager. The flag is false
\* initially; it is true only if a launch issued by this instance succeeded
\* and no stop() has completed since; it is false after every stop() and after
\* every start() whose launch failed; a start() that finds the service already
\* healthy leaves it unchanged.
C27_OwnershipFlag ==
    /\ \A m \in AllMgrs : ~started[m]
    /\ []FlagMeansOwnLaunch
    /\ [][HealthyProbeKeepsFlag]_vars

C27_Witness ==
    /\ "launch_failed" \in trail[PM]
    /\ ownLaunch[PM] /\ ~started[PM]
    /\ spc[PM] = "idle" /\ last[PM] = "start_err"


\* The batches of the current run whose copy loop is over.
CopyLoopOver(k) == k \in 1..Len(stagedLog) /\ (k < Len(stagedLog) \/ rpc # "copy")

\* batch_pdf_files of batch k without the items whose copy raised, in order.
NotFailed(k) == SelectSeq(batchLog[k], LAMBDA i : i \notin copyFailed)

\* The client.process calls made for batch k.
SubmissionsOf(k) == {x \in 1..Len(submitLog) : submitLog[x].k = k}

\* C24: within a batch a copy failure excludes only that item from the
\* submission and does not abort the batch: the other items are staged in input
\* order, exactly the staged items are submitted, and a batch with no staged
\* item is not submitted while run goes on to the next batch.
C24_ExactlyStagedSubmitted ==
    \A k \in 1..Len(stagedLog) :
        CopyLoopOver(k) =>
            /\ stagedLog[k] = NotFailed(k)
            /\ stagedLog[k] = <<>> => SubmissionsOf(k) = {}
            /\ \A x \in SubmissionsOf(k) :
                  /\ submitLog[x].items = stagedLog[k]
                  /\ submitLog[x].dir = SetOf(stagedLog[k])


\* The state part of C25: at most one batch directory exists; the batch being
\* staged is the last one begun, its number follows the batches done, and the
\* submissions were made one per batch in increasing batch order.
OneBatchAtATime ==
    /\ scratch \in {0, 1}
    /\ scratch = 1 => rpc = "copy"
    /\ rpc = "copy" => BatchNo(bi) = Len(batchLog)
    /\ \A x \in 1..Len(submitLog) :
          /\ submitLog[x].k \in 1..Len(batchLog)
          /\ \A y \in 1..Len(submitLog) : x < y => submitLog[x].k < submitLog[y].k
    /\ \A x \in 1..Len(submitLog) : rpc = "copy" => submitLog[x].k < Len(batchLog)

\* The step part of C25: a batch begins, and its directory is created, only
\* when no directory exists, and a submission ends with its directory removed.
BatchBeginsAfterRelease ==
    /\ Len(batchLog') > Len(batchLog) =>
          (scratch = 0 /\ scratch' = 1 /\ Len(batchLog') = Len(batchLog) + 1)
    /\ Len(submitLog') > Len(submitLog) => (scratch = 1 /\ scratch' = 0)

\* C25: batches run strictly one after the other in batch order: at most one
\* batch is being staged or submitted and at most one batch directory exists
\* at any time, and the directory of batch N+1 is created only after the
\* directory of batch N has been released.
C25_BatchesStrictlySequential ==
    /\ []OneBatchAtATime
    /\ [][BatchBeginsAfterRelease]_vars

C25_Witness ==
    /\ rpc = "copy" /\ scratch = 1
    /\ Len(batchLog) = 2 /\ bj = 1
    /\ Len(submitLog) = 1 /\ submitLog[1].k = 1


\* Two GrobidManager instances on the same container name, their start() and
\* stop() calls interleaved step by step, MaxCalls calls in all, on a host
\* where docker is installed and the name is free at first.
InitTwo == InitMgr /\ dockerOK /\ ctr = "absent"
NextTwo ==
    \/ \E m \in AllMgrs : (calls < MaxCalls /\ (CallStart(m) \/ CallStop(m))) \/ MgrStep(m)
    \/ EnvCrash
SpecTwo == InitTwo /\ [][NextTwo]_vars


\* C28: with two instances on one container name whose start() and stop()
\* calls interleave, no instance removes or stops a container the other one
\* launched, and no instance holds both a client and the ownership flag for a
\* container the other one launched.
C28_NoCrossInstanceInterference ==
    \A m \in AllMgrs :
        /\ "rm_other" \notin trail[m]
        /\ "hit_other" \notin stopCmds[m]
        /\ ~(client[m] /\ started[m] /\ ctr = "running" /\ launcher \in Others(m))


\* The process_pdf calls of the log with an outcome in outs.
CallsWith(outs) == {x \in 1..Len(processLog) : processLog[x].out \in outs}

\* The PDFs run() has to skip: force_process off and a non-empty output.
HasOutput == {i \in 1..nPdfs : ~forceProcess /\ mmdAtStart[i] = "full"}

\* C29: NougatPaperParser.run accounts for every input PDF exactly once: a
\* PDF is skipped if and only if force_process is off and its .mmd output
\* exists and is non-empty; every other PDF is processed exactly once, in
\* order; a failure is counted as failed and the PDFs after it are processed
\* all the same; at the end skipped + success + failed is the number of PDFs.
C29_EveryPdfAccountedOnce ==
    /\ npc \in {"process", "done"} =>
          /\ pdfFilesToProcess = SelectSeq(AllPdfFiles, LAMBDA i : i \notin HasOutput)
          /\ mmdSkipped = Cardinality(HasOutput)
    /\ Len(processLog) <= Len(pdfFilesToProcess)
    /\ \A x \in 1..Len(processLog) : processLog[x].pdf = pdfFilesToProcess[x]
    /\ success = Cardinality(CallsWith({"ok"}))
    /\ failed = Cardinality(CallsWith({"RuntimeError", "Exception"}))
    /\ npc = "done" =>
          /\ Len(processLog) = Len(pdfFilesToProcess)
          /\ mmdSkipped + success + failed = nPdfs

C29_Witness ==
    /\ npc = "done" /\ nPdfs = 3
    /\ mmdAtStart[1] = "full" /\ mmdAtStart[2] = "empty"
    /\ mmdSkipped = 1 /\ failed = 1 /\ success = 1
    /\ processLog[1].out = "RuntimeError" /\ processLog[2].out = "ok"


\* C30: fetch_papers terminates whatever the API does: a call that has begun
\* eventually returns, with no paper when the first request failed.
C30_FetchPapersTerminates ==
    /\ [](apc = "done" /\ ~okPages => papers = 0)
    /\ (apc = "request") ~> (apc = "done")

====
